---- MODULE Spec2Model ----
(***************************************************************************)
(* Frame scheduler of the Aether renderer (HelloTriangleApplication):       *)
(* mainLoop, drawFrame and recreateSwapChain on the CPU side, the graphics  *)
(* queue and the presentation engine on the device side.                    *)
(*                                                                          *)
(* The CPU is one thread; pc is its position.  drawFrame is cut at its      *)
(* blocking calls and at the steps of the frame state machine:              *)
(*   poll -> wait -> acquire -> update -> record -> submit -> present       *)
(* The device runs asynchronously: GpuExecute retires the oldest submitted  *)
(* command buffer, PresentExecute lets the presentation engine consume one  *)
(* queued present request.                                                  *)
(***************************************************************************)
EXTENDS Integers, Sequences, FiniteSets, TLC

\* ---------------------------------------------------------------- bounds
MaxTicks == 3
MaxImages == 3
\* selection helpers: largest image count, longest list, largest extent dimension
MaxCount == 5
MaxList == 3
MaxDim == 2
\* object lifetimes: number of swapchain recreations followed
MaxRecreates == 2

\* ------------------------------------------------------- program constants
MAX_FRAMES_IN_FLIGHT == 2

Slots == 0 .. (MAX_FRAMES_IN_FLIGHT - 1)

\* image counts a swapchain creation can come back with (driver's choice)
ImageCounts == 1 .. MaxImages

\* the events SDL_PollEvent can hand to mainLoop
Events == {"quit", "minimized", "restored", "resized"}

\* results of swapChain.acquireNextImage: a result code, or a thrown error
AcquireResults == {"success", "suboptimal", "outOfDate", "thrownOutOfDate", "error"}

\* results of queue.presentKHR: a result code, or a thrown vk::SystemError
PresentResults == {"success", "suboptimal", "outOfDate", "thrownOutOfDate", "error"}

VARIABLES
    pc,                         \* position of the CPU thread
    shouldBeClose,              \* HelloTriangleApplication::shouldBeClose
    minimized,                  \* local of mainLoop
    framebufferResized,         \* HelloTriangleApplication::framebufferResized
    frameIndex,                 \* HelloTriangleApplication::frameIndex
    imageIndex,                 \* local of drawFrame
    inFlightFences,             \* slot -> signaled
    presentCompleteSemaphores,  \* slot -> signaled
    renderFinishedSemaphores,   \* sequence (index s is element s+1) of signaled flags
    swapChainImages,            \* sequence (image i is element i+1) of owner: "free" (never used), "acquired", "queued", "released" (shown, free again)
    swapChainGen,               \* flips each time the swapchain and its views are destroyed and rebuilt
    swapChainImageLayouts,      \* sequence (image i is element i+1) of the layout the image is in
    commandBuffers,             \* slot -> image the recorded commands target, -1 when empty
    queue,                      \* submitted, unfinished command buffers, oldest first
    presents,                   \* set of present requests whose semaphore wait has not executed yet
    ticks,                      \* number of drawFrame calls started
    fenceWaits,                 \* number of waitForFences calls that returned
    signaledSinceSubmit,        \* slot -> fence has signaled since the slot's last submit
    everSubmitted,              \* slot -> the slot has been submitted at least once
    doubleSignal,               \* a render-finished semaphore was signaled while signaled
    resizePending,              \* a resize notification was delivered and no recreate followed yet
    allSuccess,                 \* every acquisition and presentation so far returned success
    windowHidden,               \* the last minimize / restore notification processed was a minimize
    tk,                         \* what the current (or last) drawFrame call did
    call,                       \* selection helpers: the function called and its arguments
    ret,                        \* selection helpers: what the call produced
    lpc,                        \* object lifetimes: position in run() and the destructor
    swapChain,                  \* object lifetimes: id of the swapchain held, 0 for nullptr
    swapChainImageViews,        \* object lifetimes: per view, id of the swapchain it was made from
    depthImage,                 \* object lifetimes: id of the image held, 0 for nullptr
    depthImageView,             \* object lifetimes: id of the image the view was made from, 0 for nullptr
    textureImage,               \* object lifetimes: id of the image held, 0 for nullptr
    textureImageView,           \* object lifetimes: id of the image the view was made from, 0 for nullptr
    nextId,                     \* object lifetimes: id the next created object gets
    recreations,                \* object lifetimes: number of recreateSwapChain calls made
    descriptorSets,             \* object lifetimes: per frame slot (slot i is element i+1) what the set's bindings point at
    window,                     \* object lifetimes: the SDL window exists
    instance,                   \* object lifetimes: the member holds a Vulkan instance
    device,                     \* object lifetimes: the member holds a logical device
    surface,                    \* object lifetimes: the member holds a window surface
    swapChainExtent,            \* object lifetimes: extent the swapchain was created with
    depthExtent,                \* object lifetimes: extent the depth image was created with
    stagingBuffer,              \* startup uploads: the function whose local staging buffer exists, or "none"
    transfers,                  \* startup uploads: single-use command buffers submitted and unfinished, oldest first
    textureImageLayout,         \* startup uploads: layout the texture image is in, "none" before it exists
    completed,                  \* startup uploads: the transfers the device has completed, in order
    returnTo,                   \* startup uploads: the statement after the running endSingleTimeCommands call
    executing                   \* depth writes: submitted, unretired command buffers with the progress of their depth and colour writes, oldest first

frameVars == << pc, shouldBeClose, minimized, framebufferResized, frameIndex, imageIndex,
                inFlightFences, presentCompleteSemaphores, renderFinishedSemaphores,
                swapChainImages, swapChainGen, swapChainImageLayouts, commandBuffers, queue, presents,
                ticks, fenceWaits, signaledSinceSubmit, everSubmitted, doubleSignal,
                resizePending, allSuccess, windowHidden, tk >>

calcVars == << call, ret >>

platformVars == << window, instance, device, surface >>
extentVars == << swapChainExtent, depthExtent >>
uploadVars == << stagingBuffer, transfers, textureImageLayout, completed, returnTo >>

lifeVars == << lpc, swapChain, swapChainImageViews, depthImage, depthImageView,
               textureImage, textureImageView, nextId, recreations, descriptorSets,
               platformVars, extentVars, uploadVars >>

gpuVars == << executing >>

vars == << frameVars, calcVars, lifeVars, gpuVars >>

cpuVars == << shouldBeClose, minimized, windowHidden, framebufferResized, frameIndex, imageIndex >>
ghostVars == << ticks, fenceWaits, everSubmitted, resizePending, allSuccess >>

\* ------------------------------------------------------------ helpers
FreshTick(prevAcq, resizeBefore) ==
    [ acq |-> "none", pres |-> "none", recreates |-> 0, records |-> 0, submits |-> 0,
      presentCalls |-> 0, resizedAtPresent |-> FALSE,
      firstUse |-> FALSE, oldLayout |-> "none",
      slot |-> frameIndex, used |-> { },
      prevAcq |-> prevAcq, resizeBefore |-> resizeBefore ]

\* the positions in cmds of the commands named op
CommandsNamed(cmds, op) == { k \in 1 .. Len(cmds) : cmds[k].op = op }

\* while (not shouldBeClose) at the head of mainLoop
LoopHead(close) == IF close THEN "exit" ELSE "poll"

\* the if / else-if chain of mainLoop for one event
ApplyEventNoMinimize(st, ev) ==
    IF ev = "quit" THEN [st EXCEPT !.close = TRUE]
    ELSE IF ev = "restored" THEN [st EXCEPT !.min = FALSE]
    ELSE st
ApplyEvent(st, ev) ==
    IF ev = "quit" THEN [st EXCEPT !.close = TRUE]
    ELSE IF ev = "minimized" THEN [st EXCEPT !.min = TRUE]
    ELSE IF ev = "restored" THEN [st EXCEPT !.min = FALSE]
    ELSE st

\* device.waitForFences(*inFlightFences[f], vk::True, UINT64_MAX) returns
FenceWaitNone(f) == TRUE
FenceWaitReturns(f) == inFlightFences[f]

\* frameIndex = (frameIndex + 1) % MAX_FRAMES_IN_FLIGHT
NextFrameStuck(f) == f
NextFrame(f) == (f + 1) % MAX_FRAMES_IN_FLIGHT

\* the image recordCommandBuffer(imageIndex) transitions and renders to
RecordTargetFirst(img) == 0
RecordTarget(img) == img

\* index of the render-finished semaphore the submit signals and the present waits on
SignalIndexByFrame(img, f) == f
SignalIndex(img, f) == img

\* where drawFrame goes after acquireNextImage returned r: the two ifs on acquireResult,
\* or the exception leaving drawFrame
AcquireOutcomeStrict(r) ==
    IF r = "outOfDate" THEN "recreateAcquire"
    ELSE IF r # "success" THEN "fatal"
    ELSE "update"
AcquireOutcome(r) ==
    IF r \in {"thrownOutOfDate", "error"} THEN "fatal"
    ELSE IF r = "outOfDate" THEN "recreateAcquire"
    ELSE IF r # "success" /\ r # "suboptimal" THEN "fatal"
    ELSE "update"

\* index of the render-finished semaphore the present request waits on
WaitIndexByFrame(img, f) == f
WaitIndex(img, f) == img

\* oldLayout of the barrier recordCommandBuffer records for the swapchain image before
\* rendering; first tells whether the image is used for the first time since the
\* swapchain was created
PreRenderOldLayoutTracked(first) == IF first THEN "eUndefined" ELSE "ePresentSrcKHR"
PreRenderOldLayout(first) == "eUndefined"

\* the recreate condition after queue.presentKHR returned a result code
NeedsRecreateOutOfDateOnly(result, resized) == result = "outOfDate" \/ resized
NeedsRecreate(result, resized) ==
    result = "outOfDate" \/ result = "suboptimal" \/ resized

\* the commands recordCommandBuffer(imageIndex) puts into commandBuffers[frameIndex],
\* in the order of the calls; transition_image_layout records one pipelineBarrier2
ImageBarrier(image, oldLayout, newLayout, srcAccessMask, dstAccessMask, srcStageMask, dstStageMask, aspect) ==
    [ op |-> "pipelineBarrier2", image |-> image, oldLayout |-> oldLayout,
      newLayout |-> newLayout, srcAccessMask |-> srcAccessMask,
      dstAccessMask |-> dstAccessMask, srcStageMask |-> srcStageMask,
      dstStageMask |-> dstStageMask, aspectMask |-> aspect ]

SwapChainImage(i) == [member |-> "swapChainImages", index |-> i]
DepthImage == [member |-> "depthImage", index |-> 0]

\* set is the index of the descriptor set bound
RecordedCommands(img, set) ==
    << [op |-> "begin"],
       ImageBarrier(SwapChainImage(img), "eUndefined", "eColorAttachmentOptimal",
                    { }, {"eColorAttachmentWrite"},
                    {"eColorAttachmentOutput"}, {"eColorAttachmentOutput"}, "eColor"),
       ImageBarrier(DepthImage, "eUndefined", "eDepthAttachmentOptimal",
                    {"eDepthStencilAttachmentWrite"}, {"eDepthStencilAttachmentWrite"},
                    {"eEarlyFragmentTests", "eLateFragmentTests"},
                    {"eEarlyFragmentTests", "eLateFragmentTests"}, "eDepth"),
       [op |-> "beginRendering", colorView |-> img, depthView |-> "depthImageView"],
       [op |-> "bindPipeline"],
       [op |-> "setViewport"],
       [op |-> "setScissor"],
       [op |-> "bindVertexBuffers"],
       [op |-> "bindIndexBuffer"],
       [op |-> "bindDescriptorSets", set |-> set],
       [op |-> "drawIndexed", indexCount |-> "indices.size()", instanceCount |-> 1],
       [op |-> "endRendering"],
       ImageBarrier(SwapChainImage(img), "eColorAttachmentOptimal", "ePresentSrcKHR",
                    {"eColorAttachmentWrite"}, { },
                    {"eColorAttachmentOutput"}, {"eBottomOfPipe"}, "eColor"),
       [op |-> "end"] >>

recordCommandBufferNoPresentTransition(img, f) ==
    LET cmds == RecordedCommands(img, f)
    IN  SubSeq(cmds, 1, Len(cmds) - 2) \o << cmds[Len(cmds)] >>
recordCommandBufferNoDepthBarrier(img, f) ==
    SelectSeq(RecordedCommands(img, f),
              LAMBDA c : ~(c.op = "pipelineBarrier2" /\ c.image = DepthImage))
recordCommandBufferFirstSet(img, f) == RecordedCommands(img, 0)
recordCommandBuffer(img, f) == RecordedCommands(img, f)

\* positions in cmds of the barriers on image
BarriersOn(cmds, image) ==
    { k \in 1 .. Len(cmds) : cmds[k].op = "pipelineBarrier2" /\ cmds[k].image = image }

\* the layout swapchain image i is in after the device executed cmds, layout before
LayoutAfter(cmds, i, layout) ==
    LET on == BarriersOn(cmds, SwapChainImage(i))
    IN  IF on = { } THEN layout
        ELSE cmds[CHOOSE k \in on : \A j \in on : j <= k].newLayout

AllFree(k) == [ j \in 1 .. k |-> "free" ]

\* the images of a new swapchain start in the undefined layout
AllUndefined(k) == [ j \in 1 .. k |-> "eUndefined" ]

\* what cleanupSwapChain, createSwapChain and createImageViews, called by
\* recreateSwapChain, make of the swapchain's objects when the new swapchain has k
\* images; the render-finished semaphores are not among the objects they assign
recreateSwapChainPerImageSemaphores(objs, k) ==
    [ swapChainImages |-> AllFree(k), swapChainImageLayouts |-> AllUndefined(k),
      swapChainGen |-> ~objs.swapChainGen,
      renderFinishedSemaphores |-> [ j \in 1 .. k |-> FALSE ] ]
recreateSwapChain(objs, k) ==
    [ objs EXCEPT !.swapChainImages = AllFree(k),
                  !.swapChainImageLayouts = AllUndefined(k),
                  !.swapChainGen = ~@ ]

\* device.waitIdle() returns
DeviceIdleNoWait == TRUE
DeviceIdle == queue = << >> /\ presents = { }

\* no selection helper is being called
CalcIdle ==
    /\ call = [fn |-> "none"]
    /\ ret = [kind |-> "none"]

\* the object-lifetime view of run() is not being followed
LifeIdle ==
    /\ lpc = [at |-> "idle", in |-> "none"]
    /\ swapChain = 0
    /\ swapChainImageViews = << >>
    /\ depthImage = 0
    /\ depthImageView = 0
    /\ textureImage = 0
    /\ textureImageView = 0
    /\ nextId = 1
    /\ recreations = 0
    /\ descriptorSets = << >>
    /\ window = FALSE
    /\ instance = FALSE
    /\ device = FALSE
    /\ surface = FALSE
    /\ swapChainExtent = [width |-> 0, height |-> 0]
    /\ depthExtent = [width |-> 0, height |-> 0]
    /\ stagingBuffer = "none"
    /\ transfers = << >>
    /\ textureImageLayout = "none"
    /\ completed = << >>
    /\ returnTo = "none"

\* the device's stages are not being followed
GpuIdle == executing = << >>

\* the frame loop is not being followed
FrameIdle ==
    /\ pc = "idle"
    /\ shouldBeClose = FALSE
    /\ minimized = FALSE
    /\ windowHidden = FALSE
    /\ framebufferResized = FALSE
    /\ frameIndex = 0
    /\ imageIndex = 0
    /\ inFlightFences = [ f \in Slots |-> TRUE ]
    /\ presentCompleteSemaphores = [ f \in Slots |-> FALSE ]
    /\ swapChainImages = << >>
    /\ swapChainImageLayouts = << >>
    /\ renderFinishedSemaphores = << >>
    /\ swapChainGen = FALSE
    /\ commandBuffers = [ f \in Slots |-> -1 ]
    /\ queue = << >>
    /\ presents = { }
    /\ ticks = 0
    /\ fenceWaits = 0
    /\ signaledSinceSubmit = [ f \in Slots |-> TRUE ]
    /\ everSubmitted = [ f \in Slots |-> FALSE ]
    /\ doubleSignal = FALSE
    /\ resizePending = FALSE
    /\ allSuccess = TRUE
    /\ tk = FreshTick("none", FALSE)

\* ------------------------------------------------------------- Init
Init ==
    /\ pc = "poll"
    /\ shouldBeClose = FALSE
    /\ minimized = FALSE
    /\ windowHidden = FALSE
    /\ framebufferResized = FALSE
    /\ frameIndex = 0
    /\ imageIndex = 0
    /\ inFlightFences = [ f \in Slots |-> TRUE ]
    /\ presentCompleteSemaphores = [ f \in Slots |-> FALSE ]
    /\ \E k \in ImageCounts :
          /\ swapChainImages = AllFree(k)
          /\ swapChainImageLayouts = AllUndefined(k)
          /\ renderFinishedSemaphores = [ j \in 1 .. k |-> FALSE ]
    /\ swapChainGen = FALSE
    /\ commandBuffers = [ f \in Slots |-> -1 ]
    /\ queue = << >>
    /\ presents = { }
    /\ ticks = 0
    /\ fenceWaits = 0
    /\ signaledSinceSubmit = [ f \in Slots |-> TRUE ]
    /\ everSubmitted = [ f \in Slots |-> FALSE ]
    /\ doubleSignal = FALSE
    /\ resizePending = FALSE
    /\ allSuccess = TRUE
    /\ tk = FreshTick("none", FALSE)
    /\ CalcIdle
    /\ LifeIdle
    /\ GpuIdle

\* ------------------------------------------------------------ mainLoop
\* One iteration of the for loop over SDL_PollEvent: one event goes through the
\* if / else-if chain.
PollEvent ==
    /\ UNCHANGED << calcVars, lifeVars, gpuVars >>
    /\ pc = "poll"
    /\ \E ev \in Events :
          LET st == ApplyEvent([close |-> shouldBeClose, min |-> minimized], ev)
          IN  /\ shouldBeClose' = st.close
              /\ minimized' = st.min
              /\ resizePending' = (resizePending \/ ev = "resized")
              /\ windowHidden' = (IF ev = "minimized" THEN TRUE
                                   ELSE IF ev = "restored" THEN FALSE
                                   ELSE windowHidden)
    /\ UNCHANGED << pc, framebufferResized, frameIndex, imageIndex, inFlightFences,
                    presentCompleteSemaphores, renderFinishedSemaphores, swapChainImages,
                    swapChainGen, swapChainImageLayouts, commandBuffers, queue, presents, ticks, fenceWaits,
                    signaledSinceSubmit, everSubmitted, doubleSignal,
                    allSuccess, tk >>

\* SDL_PollEvent returns false: the for loop ends, then if (not minimized) drawFrame()
EndPoll ==
    /\ UNCHANGED << calcVars, lifeVars, gpuVars >>
    /\ pc = "poll"
    /\ IF minimized
          THEN /\ pc' = LoopHead(shouldBeClose)
               /\ UNCHANGED << ticks, tk >>
          ELSE /\ ticks < MaxTicks
               /\ pc' = "wait"
               /\ ticks' = ticks + 1
               /\ tk' = FreshTick(tk.acq, resizePending)
    /\ UNCHANGED << cpuVars, inFlightFences, presentCompleteSemaphores,
                    renderFinishedSemaphores, swapChainImages, swapChainGen, swapChainImageLayouts, commandBuffers,
                    queue, presents, fenceWaits, signaledSinceSubmit, everSubmitted,
                    doubleSignal, resizePending, allSuccess >>

\* device.waitIdle() after the loop, then cleanup()
ExitLoop ==
    /\ UNCHANGED << calcVars, lifeVars, gpuVars >>
    /\ pc = "exit"
    /\ DeviceIdle
    /\ pc' = "done"
    /\ UNCHANGED << cpuVars, ghostVars, inFlightFences, presentCompleteSemaphores,
                    renderFinishedSemaphores, swapChainImages, swapChainGen, swapChainImageLayouts, commandBuffers,
                    queue, presents, signaledSinceSubmit, doubleSignal, tk >>

\* main(): run() returned after cleanup() and main returns EXIT_SUCCESS, or an
\* exception left run() and the catch block returns EXIT_FAILURE; either way app is
\* destroyed and its members release their device objects.  No device.waitIdle() is
\* on the path through the catch block.
MainReturn ==
    /\ UNCHANGED << calcVars, lifeVars, gpuVars >>
    /\ pc \in {"done", "fatal"}
    /\ pc' = (IF pc = "done" THEN "exitSuccess" ELSE "exitFailure")
    /\ UNCHANGED << cpuVars, ghostVars, inFlightFences, presentCompleteSemaphores,
                    renderFinishedSemaphores, swapChainImages, swapChainGen, swapChainImageLayouts, commandBuffers,
                    queue, presents, signaledSinceSubmit, doubleSignal, tk >>

\* ------------------------------------------------------------ drawFrame
\* waitForFences on slot frameIndex, then the first resetFences
WaitFence ==
    /\ UNCHANGED << calcVars, lifeVars, gpuVars >>
    /\ pc = "wait"
    /\ FenceWaitReturns(frameIndex)
    /\ inFlightFences' = [inFlightFences EXCEPT ![frameIndex] = FALSE]
    /\ fenceWaits' = fenceWaits + 1
    /\ pc' = "acquire"
    /\ tk' = [tk EXCEPT !.used = @ \cup { << "inFlightFences", frameIndex >> }]
    /\ UNCHANGED << cpuVars, presentCompleteSemaphores, renderFinishedSemaphores,
                    swapChainImages, swapChainGen, swapChainImageLayouts, commandBuffers, queue, presents, ticks,
                    signaledSinceSubmit, everSubmitted, doubleSignal, resizePending,
                    allSuccess >>

\* swapChain.acquireNextImage with slot frameIndex's semaphore, and the two ifs after it
Acquire ==
    /\ UNCHANGED << calcVars, lifeVars, gpuVars >>
    /\ pc = "acquire"
    /\ \E r \in AcquireResults :
          /\ allSuccess' = (allSuccess /\ r = "success")
          /\ IF AcquireOutcome(r) = "update"
                THEN \E i \in 1 .. Len(swapChainImages) :
                        /\ swapChainImages[i] \in {"free", "released"}
                        /\ tk' = [tk EXCEPT !.acq = r, !.firstUse = (swapChainImages[i] = "free"),
                                          !.used = @ \cup { << "presentCompleteSemaphores",
                                                                frameIndex >> }]
                        /\ swapChainImages' = [swapChainImages EXCEPT ![i] = "acquired"]
                        /\ imageIndex' = i - 1
                        /\ presentCompleteSemaphores' =
                               [presentCompleteSemaphores EXCEPT ![frameIndex] = TRUE]
                        /\ pc' = "update"
                ELSE /\ tk' = [tk EXCEPT !.acq = r,
                                       !.used = @ \cup { << "presentCompleteSemaphores",
                                                             frameIndex >> }]
                     /\ pc' = AcquireOutcome(r)
                     /\ UNCHANGED << swapChainImages, imageIndex, presentCompleteSemaphores >>
    /\ UNCHANGED << shouldBeClose, minimized, windowHidden, framebufferResized, frameIndex, inFlightFences,
                    renderFinishedSemaphores, swapChainGen, swapChainImageLayouts, commandBuffers, queue, presents,
                    ticks, fenceWaits, signaledSinceSubmit, everSubmitted, doubleSignal,
                    resizePending >>

\* updateUniformBuffer(frameIndex): pc = "update" is the CPU writing the mapped buffer
UpdateUniform ==
    /\ UNCHANGED << calcVars, lifeVars, gpuVars >>
    /\ pc = "update"
    /\ pc' = "record"
    /\ tk' = [tk EXCEPT !.used = @ \cup { << "uniformBuffers", frameIndex >> }]
    /\ UNCHANGED << cpuVars, ghostVars, inFlightFences, presentCompleteSemaphores,
                    renderFinishedSemaphores, swapChainImages, swapChainGen,
                    swapChainImageLayouts, commandBuffers, queue, presents,
                    signaledSinceSubmit, doubleSignal >>

\* the second resetFences, commandBuffers[frameIndex].reset(), recordCommandBuffer(imageIndex)
Record ==
    /\ UNCHANGED << calcVars, lifeVars, gpuVars >>
    /\ pc = "record"
    /\ inFlightFences' = [inFlightFences EXCEPT ![frameIndex] = FALSE]
    /\ commandBuffers' = [commandBuffers EXCEPT ![frameIndex] = RecordTarget(imageIndex)]
    /\ LET cmds == recordCommandBuffer(imageIndex, frameIndex)
       IN  tk' = [tk EXCEPT !.records = @ + 1,
                            !.oldLayout = PreRenderOldLayout(tk.firstUse),
                            !.used = @ \cup { << "inFlightFences", frameIndex >>,
                                              << "commandBuffers", frameIndex >> }
                                       \cup { << "descriptorSets", cmds[k].set >> :
                                                  k \in CommandsNamed(cmds, "bindDescriptorSets") }]
    /\ pc' = "submit"
    /\ UNCHANGED << cpuVars, ghostVars, presentCompleteSemaphores, renderFinishedSemaphores,
                    swapChainImages, swapChainGen, swapChainImageLayouts, queue, presents, signaledSinceSubmit,
                    doubleSignal >>

\* queue.submit(submitInfo, *inFlightFences[frameIndex])
Submit ==
    /\ UNCHANGED << calcVars, lifeVars, gpuVars >>
    /\ pc = "submit"
    /\ SignalIndex(imageIndex, frameIndex) < Len(renderFinishedSemaphores)
    /\ LET s == SignalIndex(imageIndex, frameIndex)
       IN  /\ queue' = Append(queue, [slot |-> frameIndex, image |-> commandBuffers[frameIndex],
                                       sem |-> s])
           /\ tk' = [tk EXCEPT !.submits = @ + 1,
                                !.used = @ \cup { << "presentCompleteSemaphores", frameIndex >>,
                                                  << "commandBuffers", frameIndex >>,
                                                  << "inFlightFences", frameIndex >> }]
    /\ signaledSinceSubmit' = [signaledSinceSubmit EXCEPT ![frameIndex] = FALSE]
    /\ everSubmitted' = [everSubmitted EXCEPT ![frameIndex] = TRUE]
    /\ pc' = "present"
    /\ UNCHANGED << cpuVars, inFlightFences, presentCompleteSemaphores,
                    renderFinishedSemaphores, swapChainImages, swapChainGen, swapChainImageLayouts, commandBuffers,
                    presents, ticks, fenceWaits, doubleSignal, resizePending, allSuccess >>

\* renderFinishedSemaphores[imageIndex] with imageIndex past the end of the vector:
\* the read is out of bounds; the process dies or the driver rejects the handle
SubmitOutOfRange ==
    /\ UNCHANGED << calcVars, lifeVars, gpuVars >>
    /\ pc = "submit"
    /\ SignalIndex(imageIndex, frameIndex) >= Len(renderFinishedSemaphores)
    /\ pc' \in {"crashed", "fatal"}
    /\ UNCHANGED << cpuVars, ghostVars, inFlightFences, presentCompleteSemaphores,
                    renderFinishedSemaphores, swapChainImages, swapChainGen, swapChainImageLayouts, commandBuffers,
                    queue, presents, signaledSinceSubmit, doubleSignal, tk >>

\* queue.presentKHR inside the try block, the if / else-if on its result and the catch
Present ==
    /\ UNCHANGED << calcVars, lifeVars, gpuVars >>
    /\ pc = "present"
    /\ \E r \in PresentResults :
          /\ tk' = [tk EXCEPT !.pres = r, !.presentCalls = @ + 1,
                            !.resizedAtPresent = framebufferResized]
          /\ allSuccess' = (allSuccess /\ r = "success")
          /\ IF r = "error"
                THEN /\ pc' = "fatal"
                     /\ UNCHANGED << presents, swapChainImages, framebufferResized, frameIndex >>
                ELSE /\ presents' = presents \cup
                                       { [image |-> imageIndex,
                                          sem |-> WaitIndex(imageIndex, frameIndex),
                                          shown |-> r \in {"success", "suboptimal"}] }
                     /\ swapChainImages' =
                            [swapChainImages EXCEPT ![imageIndex + 1] =
                                 IF r \in {"success", "suboptimal"} THEN "queued" ELSE @]
                     /\ IF r = "thrownOutOfDate"
                           THEN /\ pc' = "recreateCatch"
                                /\ UNCHANGED << framebufferResized, frameIndex >>
                           ELSE IF NeedsRecreate(r, framebufferResized)
                                   THEN /\ framebufferResized' = FALSE
                                        /\ pc' = "recreatePresent"
                                        /\ UNCHANGED frameIndex
                                   ELSE /\ frameIndex' = NextFrame(frameIndex)
                                        /\ pc' = LoopHead(shouldBeClose)
                                        /\ UNCHANGED framebufferResized
    /\ UNCHANGED << shouldBeClose, minimized, windowHidden, imageIndex, inFlightFences,
                    presentCompleteSemaphores, renderFinishedSemaphores, swapChainGen, swapChainImageLayouts,
                    commandBuffers, queue, ticks, fenceWaits, signaledSinceSubmit,
                    everSubmitted, doubleSignal, resizePending >>

\* ------------------------------------------------------ recreateSwapChain
\* device.waitIdle(); cleanupSwapChain(); createSwapChain(); createImageViews();
\* createDepthResources(); then the rest of drawFrame after the call: return after an
\* out-of-date acquisition and in the catch block, the frame advance after the
\* result-code path of the present.
RecreateSwapChain ==
    /\ UNCHANGED << calcVars, lifeVars, gpuVars >>
    /\ pc \in {"recreateAcquire", "recreatePresent", "recreateCatch"}
    /\ DeviceIdle
    /\ \E k \in ImageCounts :
          LET after == recreateSwapChain(
                           [ swapChainImages |-> swapChainImages,
                             swapChainImageLayouts |-> swapChainImageLayouts,
                             swapChainGen |-> swapChainGen,
                             renderFinishedSemaphores |-> renderFinishedSemaphores ], k)
          IN  /\ swapChainImages' = after.swapChainImages
              /\ swapChainImageLayouts' = after.swapChainImageLayouts
              /\ swapChainGen' = after.swapChainGen
              /\ renderFinishedSemaphores' = after.renderFinishedSemaphores
    /\ tk' = [tk EXCEPT !.recreates = @ + 1]
    /\ resizePending' = FALSE
    /\ frameIndex' = (IF pc = "recreatePresent" THEN NextFrame(frameIndex) ELSE frameIndex)
    /\ pc' = LoopHead(shouldBeClose)
    /\ UNCHANGED << shouldBeClose, minimized, windowHidden, framebufferResized, imageIndex,
                    inFlightFences, presentCompleteSemaphores, commandBuffers,
                    queue, presents, ticks, fenceWaits, signaledSinceSubmit, everSubmitted,
                    doubleSignal, allSuccess >>

\* ------------------------------------------------------------- device
\* The graphics queue retires its oldest command buffer: it waits on the slot's
\* image-acquired semaphore, then signals the render-finished semaphore and the fence.
GpuExecute ==
    /\ UNCHANGED << calcVars, lifeVars, gpuVars >>
    /\ queue # << >>
    /\ LET op == Head(queue)
       IN  /\ presentCompleteSemaphores[op.slot]
           /\ presentCompleteSemaphores' = [presentCompleteSemaphores EXCEPT ![op.slot] = FALSE]
           /\ doubleSignal' = (doubleSignal \/ renderFinishedSemaphores[op.sem + 1])
           /\ renderFinishedSemaphores' = [renderFinishedSemaphores EXCEPT ![op.sem + 1] = TRUE]
           /\ inFlightFences' = [inFlightFences EXCEPT ![op.slot] = TRUE]
           /\ signaledSinceSubmit' = [signaledSinceSubmit EXCEPT ![op.slot] = TRUE]
           /\ swapChainImageLayouts' =
                  [ j \in 1 .. Len(swapChainImageLayouts) |->
                        LayoutAfter(recordCommandBuffer(op.image, op.slot), j - 1,
                                    swapChainImageLayouts[j]) ]
    /\ queue' = Tail(queue)
    /\ UNCHANGED << pc, cpuVars, ghostVars, swapChainImages, swapChainGen, commandBuffers,
                    presents, tk >>

\* The presentation engine takes one present request: its wait on the render-finished
\* semaphore executes and, if the request was accepted, the image is shown and
\* released for a later acquisition.
PresentExecute ==
    /\ UNCHANGED << calcVars, lifeVars, gpuVars >>
    /\ \E p \in presents :
              /\ p.sem < Len(renderFinishedSemaphores)
              /\ renderFinishedSemaphores[p.sem + 1]
              /\ renderFinishedSemaphores' = [renderFinishedSemaphores EXCEPT ![p.sem + 1] = FALSE]
              /\ swapChainImages' = IF p.shown
                                       THEN [swapChainImages EXCEPT ![p.image + 1] = "released"]
                                       ELSE swapChainImages
              /\ presents' = presents \ {p}
    /\ UNCHANGED << pc, cpuVars, ghostVars, inFlightFences, presentCompleteSemaphores,
                    swapChainGen, swapChainImageLayouts, commandBuffers, queue, signaledSinceSubmit, doubleSignal, tk >>

Next ==
    \/ PollEvent
    \/ EndPoll
    \/ ExitLoop
    \/ MainReturn
    \/ WaitFence
    \/ Acquire
    \/ UpdateUniform
    \/ Record
    \/ Submit
    \/ SubmitOutOfRange
    \/ Present
    \/ RecreateSwapChain
    \/ GpuExecute
    \/ PresentExecute

Spec == Init /\ [][Next]_vars

\* ================================================= selection helpers
\* The functions createSwapChain, createImage / createBuffer and createTextureImage
\* call to pick a value.  SpecCalc starts with one call to one of them, its arguments
\* drawn from the sets below, and the actions run the call.

\* values of type uint32_t are held as the 32-bit pattern read as a signed integer
\* (0xFFFFFFFF is -1); ULess is the unsigned order on these patterns, the order
\* operator< has after the conversion of sdl_surface->w to uint32_t
UINT32_MAX == -1
ULess(a, b) == IF (a < 0) = (b < 0) THEN a < b ELSE b < 0
ULessEq(a, b) == a = b \/ ULess(a, b)

\* std::max and std::clamp on uint32_t
Max(a, b) == IF ULess(a, b) THEN b ELSE a
Clamp(v, lo, hi) == IF ULess(v, lo) THEN lo ELSE IF ULess(hi, v) THEN hi ELSE v

\* operator& on two non-negative masks
RECURSIVE BitAnd(_, _)
BitAnd(a, b) ==
    IF a = 0 \/ b = 0 THEN 0
    ELSE 2 * BitAnd(a \div 2, b \div 2) + (IF a % 2 = 1 /\ b % 2 = 1 THEN 1 ELSE 0)

\* the image count the application asks for
PreferredImageCount == 3

ImageCountValues == 0 .. MaxCount
SurfaceFormats ==
    [ format : {"eB8G8R8A8Srgb", "eB8G8R8A8Unorm"},
      colorSpace : {"eSrgbNonlinear", "eDisplayP3NonlinearEXT"} ]
PresentModes == {"eImmediate", "eMailbox", "eFifo", "eFifoRelaxed"}
ImageLayouts == {"eUndefined", "eTransferDstOptimal", "eShaderReadOnlyOptimal", "eGeneral"}
\* vk::MemoryPropertyFlags over two flag bits
PropertyFlags == 0 .. 3
Lists(S, n) == UNION { [ 1 .. k -> S ] : k \in 0 .. n }

Extents == [ width : 0 .. MaxDim, height : 0 .. MaxDim ]
\* surface capabilities as the Vulkan specification allows them: min <= max, and the
\* current extent either within [min, max] or the special value in both fields
ExtentCapabilities ==
    { c \in [ currentExtent : Extents \cup { [width |-> UINT32_MAX, height |-> UINT32_MAX] },
              minImageExtent : Extents, maxImageExtent : Extents ] :
        /\ c.minImageExtent.width <= c.maxImageExtent.width
        /\ c.minImageExtent.height <= c.maxImageExtent.height
        /\ c.currentExtent.width # UINT32_MAX =>
              /\ c.minImageExtent.width <= c.currentExtent.width
              /\ c.currentExtent.width <= c.maxImageExtent.width
              /\ c.minImageExtent.height <= c.currentExtent.height
              /\ c.currentExtent.height <= c.maxImageExtent.height }
\* what SDL_GetWindowSurface returns: nullptr, or a surface with int fields w and h
WindowSurfaces ==
    { [null |-> TRUE, w |-> 0, h |-> 0] }
        \cup [ null : {FALSE}, w : -1 .. (MaxDim + 1), h : -1 .. (MaxDim + 1) ]

CalcInputs ==
    [ fn : {"calculateMinImageCount"},
      minImageCount : ImageCountValues, maxImageCount : ImageCountValues ]
    \cup [ fn : {"chooseSwapSurfaceFormat"}, availableFormats : Lists(SurfaceFormats, MaxList) ]
    \cup [ fn : {"chooseSwapPresentMode"}, availablePresentModes : Lists(PresentModes, MaxList) ]
    \cup [ fn : {"chooseSwapExtent"}, capabilities : ExtentCapabilities,
           sdl_surface : WindowSurfaces ]
    \cup [ fn : {"findMemoryType"}, typeFilter : 0 .. (2 ^ MaxList - 1),
           properties : PropertyFlags, memoryTypes : Lists(PropertyFlags, MaxList) ]
    \cup [ fn : {"transitionImageLayout"}, oldLayout : ImageLayouts, newLayout : ImageLayouts ]

Pending == [kind |-> "pending"]
Value(v) == [kind |-> "value", value |-> v]
Throw(e) == [kind |-> "throw", what |-> e]

calculateMinImageCountNoPreference(surfaceCapabilities) ==
    IF surfaceCapabilities.maxImageCount > 0
          /\ surfaceCapabilities.minImageCount > surfaceCapabilities.maxImageCount
       THEN surfaceCapabilities.maxImageCount
       ELSE surfaceCapabilities.minImageCount
calculateMinImageCountUncapped(surfaceCapabilities) ==
    Max(PreferredImageCount, surfaceCapabilities.minImageCount)
calculateMinImageCount(surfaceCapabilities) ==
    LET minImageCount == Max(PreferredImageCount, surfaceCapabilities.minImageCount)
    IN  IF surfaceCapabilities.maxImageCount > 0
              /\ minImageCount > surfaceCapabilities.maxImageCount
           THEN surfaceCapabilities.maxImageCount
           ELSE minImageCount

\* the range-for of chooseSwapSurfaceFormat from element i on, then availableFormats[0]
RECURSIVE ScanFormats(_, _)
ScanFormats(availableFormats, i) ==
    IF i > Len(availableFormats) THEN availableFormats[1]
    ELSE IF availableFormats[i].format = "eB8G8R8A8Srgb"
               /\ availableFormats[i].colorSpace = "eSrgbNonlinear"
            THEN availableFormats[i]
            ELSE ScanFormats(availableFormats, i + 1)

chooseSwapSurfaceFormatFirst(availableFormats) == availableFormats[1]
chooseSwapSurfaceFormat(availableFormats) == ScanFormats(availableFormats, 1)

\* the range-for of chooseSwapPresentMode from element i on, then eFifo
RECURSIVE ScanPresentModes(_, _)
ScanPresentModes(availablePresentModes, i) ==
    IF i > Len(availablePresentModes) THEN "eFifo"
    ELSE IF availablePresentModes[i] = "eMailbox"
            THEN availablePresentModes[i]
            ELSE ScanPresentModes(availablePresentModes, i + 1)

chooseSwapPresentModeFirst(availablePresentModes) ==
    IF availablePresentModes = << >> THEN "eFifo" ELSE availablePresentModes[1]
chooseSwapPresentMode(availablePresentModes) == ScanPresentModes(availablePresentModes, 1)

chooseSwapExtentUnclamped(capabilities, sdl_surface) ==
    IF capabilities.currentExtent.width # UINT32_MAX
       THEN Value(capabilities.currentExtent)
       ELSE IF sdl_surface.null
               THEN Throw("runtime_error")
               ELSE Value([width |-> sdl_surface.w, height |-> sdl_surface.h])
chooseSwapExtent(capabilities, sdl_surface) ==
    IF capabilities.currentExtent.width # UINT32_MAX
       THEN Value(capabilities.currentExtent)
       ELSE IF sdl_surface.null
               THEN Throw("runtime_error")
               ELSE Value([width |-> Clamp(sdl_surface.w, capabilities.minImageExtent.width,
                                           capabilities.maxImageExtent.width),
                           height |-> Clamp(sdl_surface.h, capabilities.minImageExtent.height,
                                            capabilities.maxImageExtent.height)])

\* the for loop of findMemoryType from index i on; memoryTypes[i] is element i + 1
\* and the length of the list is memoryTypeCount
RECURSIVE ScanMemoryTypes(_, _, _, _)
ScanMemoryTypes(typeFilter, properties, memoryTypes, i) ==
    IF i >= Len(memoryTypes) THEN Throw("runtime_error")
    ELSE IF BitAnd(typeFilter, 2 ^ i) # 0
               /\ BitAnd(memoryTypes[i + 1], properties) = properties
            THEN Value(i)
            ELSE ScanMemoryTypes(typeFilter, properties, memoryTypes, i + 1)

\* the same loop with every filter bit taken as set
findMemoryTypeAnyFilter(typeFilter, properties, memoryTypes) ==
    ScanMemoryTypes(2 ^ Len(memoryTypes) - 1, properties, memoryTypes, 0)
findMemoryType(typeFilter, properties, memoryTypes) ==
    ScanMemoryTypes(typeFilter, properties, memoryTypes, 0)

\* what one call of transitionImageLayout leaves behind: the barriers recorded into
\* the single-use command buffer and the number of queue submissions
Barrier(oldLayout, newLayout, srcAccess, dstAccess, srcStage, dstStage) ==
    [ oldLayout |-> oldLayout, newLayout |-> newLayout,
      srcAccessMask |-> srcAccess, dstAccessMask |-> dstAccess,
      sourceStage |-> srcStage, destinationStage |-> dstStage ]

transitionImageLayoutPermissive(oldLayout, newLayout) ==
    [ kind |-> "value",
      barriers |-> << Barrier(oldLayout, newLayout, { }, { }, "eTopOfPipe", "eTransfer") >>,
      submits |-> 1 ]
transitionImageLayout(oldLayout, newLayout) ==
    IF oldLayout = "eUndefined" /\ newLayout = "eTransferDstOptimal"
       THEN [ kind |-> "value",
              barriers |-> << Barrier(oldLayout, newLayout, { }, {"eTransferWrite"},
                                      "eTopOfPipe", "eTransfer") >>,
              submits |-> 1 ]
    ELSE IF oldLayout = "eTransferDstOptimal" /\ newLayout = "eShaderReadOnlyOptimal"
       THEN [ kind |-> "value",
              barriers |-> << Barrier(oldLayout, newLayout, {"eTransferWrite"}, {"eShaderRead"},
                                      "eTransfer", "eFragmentShader") >>,
              submits |-> 1 ]
    ELSE [ kind |-> "throw", what |-> "invalid_argument", barriers |-> << >>, submits |-> 0 ]

\* ------------------------------------------------------------ SpecCalc
InitCalc ==
    /\ FrameIdle
    /\ LifeIdle
    /\ GpuIdle
    /\ call \in CalcInputs
    /\ ret = Pending

CallCalculateMinImageCount ==
    /\ call.fn = "calculateMinImageCount"
    /\ ret = Pending
    /\ ret' = Value(calculateMinImageCount(call))
    /\ UNCHANGED << call, frameVars, lifeVars, gpuVars >>

\* availableFormats[0] of an empty vector is undefined: the call dies or returns
\* whatever the read finds
CallChooseSwapSurfaceFormat ==
    /\ call.fn = "chooseSwapSurfaceFormat"
    /\ ret = Pending
    /\ IF call.availableFormats = << >>
          THEN ret' \in { [kind |-> "crash"] } \cup { Value(f) : f \in SurfaceFormats }
          ELSE ret' = Value(chooseSwapSurfaceFormat(call.availableFormats))
    /\ UNCHANGED << call, frameVars, lifeVars, gpuVars >>

CallChooseSwapPresentMode ==
    /\ call.fn = "chooseSwapPresentMode"
    /\ ret = Pending
    /\ ret' = Value(chooseSwapPresentMode(call.availablePresentModes))
    /\ UNCHANGED << call, frameVars, lifeVars, gpuVars >>

CallChooseSwapExtent ==
    /\ call.fn = "chooseSwapExtent"
    /\ ret = Pending
    /\ ret' = chooseSwapExtent(call.capabilities, call.sdl_surface)
    /\ UNCHANGED << call, frameVars, lifeVars, gpuVars >>

CallFindMemoryType ==
    /\ call.fn = "findMemoryType"
    /\ ret = Pending
    /\ ret' = findMemoryType(call.typeFilter, call.properties, call.memoryTypes)
    /\ UNCHANGED << call, frameVars, lifeVars, gpuVars >>

CallTransitionImageLayout ==
    /\ call.fn = "transitionImageLayout"
    /\ ret = Pending
    /\ ret' = transitionImageLayout(call.oldLayout, call.newLayout)
    /\ UNCHANGED << call, frameVars, lifeVars, gpuVars >>

NextCalc ==
    \/ CallCalculateMinImageCount
    \/ CallChooseSwapSurfaceFormat
    \/ CallChooseSwapPresentMode
    \/ CallChooseSwapExtent
    \/ CallFindMemoryType
    \/ CallTransitionImageLayout

SpecCalc == InitCalc /\ [][NextCalc]_vars

\* ================================================= object lifetimes
\* The swapchain, the depth image, the texture image and the image views made from
\* them, followed statement by statement through initVulkan, recreateSwapChain,
\* cleanup and the destructor of the application.  A created object gets a fresh id;
\* a view holds the id of the object it was made from; 0 is nullptr.  Assigning to a
\* vk::raii member destroys the object the member held.

\* members holding these objects, in the order the class declares them
MemberOrder ==
    << "instance", "device", "surface",
       "swapChain", "swapChainImageViews", "depthImage", "depthImageView",
       "textureImage", "textureImageView" >>

At(at, in) == [at |-> at, in |-> in]

\* the extents chooseSwapExtent can hand to createSwapChain: at least one pixel each way
SwapChainExtents == { e \in Extents : e.width >= 1 /\ e.height >= 1 }

\* createImage: .extent = {width, height, 1}
ImageExtentTransposed(width, height) == [width |-> height, height |-> width]
ImageExtent(width, height) == [width |-> width, height |-> height]

\* the first member the destructor of the application destroys
FirstDestroyed == MemberOrder[Len(MemberOrder)]

\* the member destroyed after member number i, "gone" after the last
DestroyedAfter(i) == IF i = 1 THEN "gone" ELSE MemberOrder[i - 1]

\* index of the uniform buffer that binding 0 of descriptor set i is written to point at
DescriptorBufferFirst(i) == 0
DescriptorBuffer(i) == i

InitLife ==
    /\ FrameIdle
    /\ CalcIdle
    /\ GpuIdle
    /\ lpc = At("initWindow", "run")
    /\ window = FALSE
    /\ instance = FALSE
    /\ device = FALSE
    /\ surface = FALSE
    /\ swapChainExtent = [width |-> 0, height |-> 0]
    /\ depthExtent = [width |-> 0, height |-> 0]
    /\ stagingBuffer = "none"
    /\ transfers = << >>
    /\ textureImageLayout = "none"
    /\ completed = << >>
    /\ returnTo = "none"
    /\ swapChain = 0
    /\ swapChainImageViews = << >>
    /\ depthImage = 0
    /\ depthImageView = 0
    /\ textureImage = 0
    /\ textureImageView = 0
    /\ nextId = 1
    /\ recreations = 0
    /\ descriptorSets = << >>

LifeObjects == << swapChain, swapChainImageViews, depthImage, depthImageView,
                  textureImage, textureImageView, nextId, recreations, descriptorSets >>

\* initWindow: window = SDL_CreateWindow(...)
InitWindow ==
    /\ lpc.at = "initWindow"
    /\ window' = TRUE
    /\ lpc' = At("createInstance", "initVulkan")
    /\ UNCHANGED << instance, device, surface, LifeObjects, extentVars, uploadVars, frameVars, calcVars, gpuVars >>

\* instance = vk::raii::Instance(context, createInfo)
CreateInstance ==
    /\ lpc.at = "createInstance"
    /\ instance' = TRUE
    /\ lpc' = At("createSurface", "initVulkan")
    /\ UNCHANGED << window, device, surface, LifeObjects, extentVars, uploadVars, frameVars, calcVars, gpuVars >>

\* SDL_Vulkan_CreateSurface(window, *instance, ...); surface = vk::raii::SurfaceKHR(...)
CreateSurface ==
    /\ lpc.at = "createSurface"
    /\ surface' = TRUE
    /\ lpc' = At("createLogicalDevice", "initVulkan")
    /\ UNCHANGED << window, instance, device, LifeObjects, extentVars, uploadVars, frameVars, calcVars, gpuVars >>

\* device = vk::raii::Device(physicalDevice, deviceCreateInfo)
CreateLogicalDevice ==
    /\ lpc.at = "createLogicalDevice"
    /\ device' = TRUE
    /\ lpc' = At("createSwapChain", "initVulkan")
    /\ UNCHANGED << window, instance, surface, LifeObjects, extentVars, uploadVars, frameVars, calcVars, gpuVars >>

\* swapChain = vk::raii::SwapchainKHR(device, swapChainCreateInfo)
CreateSwapChain ==
    /\ lpc.at = "createSwapChain"
    /\ swapChainExtent' \in SwapChainExtents
    /\ swapChain' = nextId
    /\ nextId' = nextId + 1
    /\ lpc' = At("createImageViews", lpc.in)
    /\ UNCHANGED << swapChainImageViews, depthImage, depthImageView, textureImage,
                    textureImageView, recreations, descriptorSets, depthExtent,
                    frameVars, calcVars, gpuVars, platformVars, uploadVars >>

\* one view per image of the swapchain
CreateImageViews ==
    /\ lpc.at = "createImageViews"
    /\ swapChainImageViews = << >>
    /\ \E k \in ImageCounts : swapChainImageViews' = [ j \in 1 .. k |-> swapChain ]
    /\ lpc' = At("createImage", lpc.in)
    /\ UNCHANGED << swapChain, depthImage, depthImageView, textureImage, textureImageView,
                    nextId, recreations, descriptorSets, frameVars, calcVars, gpuVars, platformVars, extentVars, uploadVars >>

\* createDepthResources, first statement: createImage(..., depthImage, depthImageMemory),
\* whose image = vk::raii::Image(device, imageInfo) replaces the image the member held
CreateDepthImage ==
    /\ lpc.at = "createImage"
    /\ depthImage' = nextId
    /\ depthExtent' = ImageExtent(swapChainExtent.width, swapChainExtent.height)
    /\ nextId' = nextId + 1
    /\ lpc' = At("createImageView", lpc.in)
    /\ UNCHANGED << swapChain, swapChainImageViews, depthImageView, textureImage,
                    textureImageView, recreations, descriptorSets, swapChainExtent,
                    frameVars, calcVars, gpuVars, platformVars, uploadVars >>

\* createDepthResources, second statement: depthImageView = createImageView(depthImage, ...)
CreateDepthImageView ==
    /\ lpc.at = "createImageView"
    /\ depthImageView' = depthImage
    /\ lpc' = (IF lpc.in = "initVulkan" THEN At("createTextureImage", "initVulkan")
               ELSE At("mainLoop", "run"))
    /\ UNCHANGED << swapChain, swapChainImageViews, depthImage, textureImage,
                    textureImageView, nextId, recreations, descriptorSets, frameVars, calcVars, gpuVars, platformVars, extentVars, uploadVars >>

\* queue.waitIdle() returns
QueueIdleNoWait == TRUE
QueueIdle == transfers = << >>

\* createTextureImage up to its first transition: the staging buffer is created and
\* filled, then createImage(..., textureImage, textureImageMemory)
CreateTextureImage ==
    /\ lpc.at = "createTextureImage"
    /\ stagingBuffer' = "createTextureImage"
    /\ textureImage' = nextId
    /\ textureImageLayout' = "eUndefined"
    /\ nextId' = nextId + 1
    /\ lpc' = At("transitionToTransferDst", "initVulkan")
    /\ UNCHANGED << swapChain, swapChainImageViews, depthImage, depthImageView,
                    textureImageView, recreations, descriptorSets, transfers, completed,
                    returnTo, frameVars, calcVars, gpuVars, platformVars, extentVars >>

\* transitionImageLayout(textureImage, eUndefined, eTransferDstOptimal) up to the
\* queue.submit of endSingleTimeCommands
TransitionToTransferDst ==
    /\ lpc.at = "transitionToTransferDst"
    /\ LET r == transitionImageLayout("eUndefined", "eTransferDstOptimal")
       IN  /\ r.kind = "value"
           /\ transfers' = Append(transfers, [cmd |-> "pipelineBarrier",
                                               barrier |-> r.barriers[1]])
    /\ returnTo' = "copyBufferToImage"
    /\ lpc' = At("waitIdle", "initVulkan")
    /\ UNCHANGED << LifeObjects, stagingBuffer, textureImageLayout, completed,
                    frameVars, calcVars, gpuVars, platformVars, extentVars >>

\* copyBufferToImage(stagingBuffer, textureImage, ...) up to the queue.submit
CopyBufferToImage ==
    /\ lpc.at = "copyBufferToImage"
    /\ transfers' = Append(transfers, [cmd |-> "copyBufferToImage", src |-> stagingBuffer,
                                        dst |-> "textureImage"])
    /\ returnTo' = "transitionToShaderReadOnly"
    /\ lpc' = At("waitIdle", "initVulkan")
    /\ UNCHANGED << LifeObjects, stagingBuffer, textureImageLayout, completed,
                    frameVars, calcVars, gpuVars, platformVars, extentVars >>

\* transitionImageLayout(textureImage, eTransferDstOptimal, eShaderReadOnlyOptimal) up
\* to the queue.submit
TransitionToShaderReadOnly ==
    /\ lpc.at = "transitionToShaderReadOnly"
    /\ LET r == transitionImageLayout("eTransferDstOptimal", "eShaderReadOnlyOptimal")
       IN  /\ r.kind = "value"
           /\ transfers' = Append(transfers, [cmd |-> "pipelineBarrier",
                                               barrier |-> r.barriers[1]])
    /\ returnTo' = "returnFromUpload"
    /\ lpc' = At("waitIdle", "initVulkan")
    /\ UNCHANGED << LifeObjects, stagingBuffer, textureImageLayout, completed,
                    frameVars, calcVars, gpuVars, platformVars, extentVars >>

\* queue.waitIdle() in endSingleTimeCommands returns and the caller goes on
QueueWaitIdle ==
    /\ lpc.at = "waitIdle"
    /\ QueueIdle
    /\ lpc' = At(returnTo, "initVulkan")
    /\ returnTo' = "none"
    /\ UNCHANGED << LifeObjects, stagingBuffer, transfers, textureImageLayout, completed,
                    frameVars, calcVars, gpuVars, platformVars, extentVars >>

\* createTextureImage, createVertexBuffer or createIndexBuffer returns: its locals
\* stagingBufferMemory and stagingBuffer are destroyed; then initVulkan goes on
ReturnFromUpload ==
    /\ lpc.at = "returnFromUpload"
    /\ stagingBuffer' = "none"
    /\ lpc' = At(IF stagingBuffer = "createTextureImage" THEN "createTextureImageView"
                  ELSE IF stagingBuffer = "createVertexBuffer" THEN "createIndexBuffer"
                  ELSE "createDescriptorSets", "initVulkan")
    /\ UNCHANGED << LifeObjects, transfers, textureImageLayout, completed, returnTo,
                    frameVars, calcVars, gpuVars, platformVars, extentVars >>

\* createVertexBuffer up to copyBuffer: the staging buffer is created and filled, the
\* vertex buffer is created
CreateVertexBuffer ==
    /\ lpc.at = "createVertexBuffer"
    /\ stagingBuffer' = "createVertexBuffer"
    /\ lpc' = At("copyBuffer", "initVulkan")
    /\ UNCHANGED << LifeObjects, transfers, textureImageLayout, completed, returnTo,
                    frameVars, calcVars, gpuVars, platformVars, extentVars >>

\* createIndexBuffer up to copyBuffer
CreateIndexBuffer ==
    /\ lpc.at = "createIndexBuffer"
    /\ stagingBuffer' = "createIndexBuffer"
    /\ lpc' = At("copyBuffer", "initVulkan")
    /\ UNCHANGED << LifeObjects, transfers, textureImageLayout, completed, returnTo,
                    frameVars, calcVars, gpuVars, platformVars, extentVars >>

\* copyBuffer(stagingBuffer, vertexBuffer or indexBuffer, bufferSize) up to the queue.submit
CopyBuffer ==
    /\ lpc.at = "copyBuffer"
    /\ transfers' = Append(transfers,
                           [cmd |-> "copyBuffer", src |-> stagingBuffer,
                            dst |-> IF stagingBuffer = "createVertexBuffer"
                                       THEN "vertexBuffer" ELSE "indexBuffer"])
    /\ returnTo' = "returnFromUpload"
    /\ lpc' = At("waitIdle", "initVulkan")
    /\ UNCHANGED << LifeObjects, stagingBuffer, textureImageLayout, completed,
                    frameVars, calcVars, gpuVars, platformVars, extentVars >>

\* the device completes the oldest submitted single-use command buffer: a barrier
\* changes the layout of the texture image, a copy reads the staging buffer
TransferExecute ==
    /\ transfers # << >>
    /\ LET t == Head(transfers)
       IN  /\ textureImageLayout' =
                  (IF t.cmd = "pipelineBarrier" THEN t.barrier.newLayout
                   ELSE textureImageLayout)
           /\ completed' = Append(completed,
                                  [ transfer |-> t, layoutBefore |-> textureImageLayout,
                                    stagingBufferExists |-> (stagingBuffer # "none") ])
    /\ transfers' = Tail(transfers)
    /\ UNCHANGED << lpc, LifeObjects, stagingBuffer, returnTo,
                    frameVars, calcVars, gpuVars, platformVars, extentVars >>

\* textureImageView = createImageView(textureImage, ...), then initVulkan up to
\* createVertexBuffer
CreateTextureImageView ==
    /\ lpc.at = "createTextureImageView"
    /\ textureImageView' = textureImage
    /\ lpc' = At("createVertexBuffer", "initVulkan")
    /\ UNCHANGED << swapChain, swapChainImageViews, depthImage, depthImageView,
                    textureImage, nextId, recreations, descriptorSets, frameVars, calcVars, gpuVars, platformVars, extentVars, uploadVars >>

\* createDescriptorSets: the loop over the frame slots writes binding 0 and binding 1
\* of each set; then the rest of initVulkan
CreateDescriptorSets ==
    /\ lpc.at = "createDescriptorSets"
    /\ descriptorSets' =
           [ j \in 1 .. MAX_FRAMES_IN_FLIGHT |->
                 [ binding0 |-> [buffer |-> DescriptorBuffer(j - 1)],
                   binding1 |-> [sampler |-> "textureSampler",
                                 imageView |-> textureImageView] ] ]
    /\ lpc' = At("mainLoop", "run")
    /\ UNCHANGED << swapChain, swapChainImageViews, depthImage, depthImageView,
                    textureImage, textureImageView, nextId, recreations, frameVars, calcVars, gpuVars, platformVars, extentVars, uploadVars >>

\* drawFrame calls recreateSwapChain: device.waitIdle(), then cleanupSwapChain()
EnterRecreateSwapChain ==
    /\ lpc.at = "mainLoop"
    /\ recreations < MaxRecreates
    /\ recreations' = recreations + 1
    /\ lpc' = At("clearImageViews", "recreateSwapChain")
    /\ UNCHANGED << swapChain, swapChainImageViews, depthImage, depthImageView,
                    textureImage, textureImageView, nextId, descriptorSets, frameVars, calcVars, gpuVars, platformVars, extentVars, uploadVars >>

\* the loop ends on a quit request: device.waitIdle(), then cleanup() calls cleanupSwapChain()
EnterCleanup ==
    /\ lpc.at = "mainLoop"
    /\ lpc' = At("clearImageViews", "cleanup")
    /\ UNCHANGED << swapChain, swapChainImageViews, depthImage, depthImageView,
                    textureImage, textureImageView, nextId, recreations, descriptorSets, frameVars, calcVars, gpuVars, platformVars, extentVars, uploadVars >>

\* cleanupSwapChain, first statement: swapChainImageViews.clear()
ClearImageViews ==
    /\ lpc.at = "clearImageViews"
    /\ swapChainImageViews' = << >>
    /\ lpc' = At("resetSwapChain", lpc.in)
    /\ UNCHANGED << swapChain, depthImage, depthImageView, textureImage, textureImageView,
                    nextId, recreations, descriptorSets, frameVars, calcVars, gpuVars, platformVars, extentVars, uploadVars >>

\* cleanupSwapChain, second statement: swapChain = nullptr; then back in the caller:
\* createSwapChain() in recreateSwapChain, the return of run() and main() after cleanup
ResetSwapChain ==
    /\ lpc.at = "resetSwapChain"
    /\ swapChain' = 0
    /\ lpc' = (IF lpc.in = "recreateSwapChain" THEN At("createSwapChain", "recreateSwapChain")
               ELSE At("destroyWindow", "cleanup"))
    /\ UNCHANGED << swapChainImageViews, depthImage, depthImageView, textureImage,
                    textureImageView, nextId, recreations, descriptorSets, frameVars, calcVars, gpuVars, platformVars, extentVars, uploadVars >>

\* cleanup after cleanupSwapChain: SDL_DestroyWindow(window); SDL_Quit(); then run()
\* and main() return, which runs the destructor of the application
DestroyWindow ==
    /\ lpc = At("destroyWindow", "cleanup")
    /\ window' = FALSE
    /\ lpc' = At(FirstDestroyed, "destructor")
    /\ UNCHANGED << instance, device, surface, LifeObjects, extentVars, uploadVars, frameVars, calcVars, gpuVars >>

\* an exception leaves initVulkan, drawFrame or recreateSwapChain and unwinds the
\* locals of the function it left; main() catches it and returns, which runs the
\* destructor of the application.  queue.waitIdle() fails only when the device is
\* lost, which ends the device's work; that case is not followed.
ThrowOut ==
    /\ lpc.in \in {"initVulkan", "recreateSwapChain", "run"}
    /\ lpc.at # "waitIdle"
    /\ stagingBuffer' = "none"
    /\ lpc' = At(FirstDestroyed, "destructor")
    /\ UNCHANGED << LifeObjects, transfers, textureImageLayout, completed, returnTo,
                    frameVars, calcVars, gpuVars, platformVars, extentVars >>

\* the destructor of the application destroys one member, last declared first
DestroyMember ==
    /\ lpc.in = "destructor"
    /\ \E i \in 1 .. Len(MemberOrder) :
          /\ lpc.at = MemberOrder[i]
          /\ lpc' = At(DestroyedAfter(i), IF i = 1 THEN "exit" ELSE "destructor")
    /\ swapChain' = (IF lpc.at = "swapChain" THEN 0 ELSE swapChain)
    /\ swapChainImageViews' =
           (IF lpc.at = "swapChainImageViews" THEN << >> ELSE swapChainImageViews)
    /\ depthImage' = (IF lpc.at = "depthImage" THEN 0 ELSE depthImage)
    /\ depthImageView' = (IF lpc.at = "depthImageView" THEN 0 ELSE depthImageView)
    /\ textureImage' = (IF lpc.at = "textureImage" THEN 0 ELSE textureImage)
    /\ textureImageView' = (IF lpc.at = "textureImageView" THEN 0 ELSE textureImageView)
    /\ instance' = (IF lpc.at = "instance" THEN FALSE ELSE instance)
    /\ device' = (IF lpc.at = "device" THEN FALSE ELSE device)
    /\ surface' = (IF lpc.at = "surface" THEN FALSE ELSE surface)
    /\ UNCHANGED << window, nextId, recreations, descriptorSets, extentVars, uploadVars,
                    frameVars, calcVars, gpuVars >>

NextLife ==
    \/ TransitionToTransferDst
    \/ CopyBufferToImage
    \/ TransitionToShaderReadOnly
    \/ QueueWaitIdle
    \/ ReturnFromUpload
    \/ CreateVertexBuffer
    \/ CreateIndexBuffer
    \/ CopyBuffer
    \/ TransferExecute
    \/ InitWindow
    \/ CreateInstance
    \/ CreateSurface
    \/ CreateLogicalDevice
    \/ DestroyWindow
    \/ CreateSwapChain
    \/ CreateImageViews
    \/ CreateDepthImage
    \/ CreateDepthImageView
    \/ CreateTextureImage
    \/ CreateTextureImageView
    \/ CreateDescriptorSets
    \/ EnterRecreateSwapChain
    \/ EnterCleanup
    \/ ClearImageViews
    \/ ResetSwapChain
    \/ ThrowOut
    \/ DestroyMember

SpecLife == InitLife /\ [][NextLife]_vars

\* ================================================= depth writes on the device
\* The one depth image under the command buffers of several frame slots.  The CPU
\* side is reduced to what lets two command buffers be in flight: the fence wait on
\* slot frameIndex, the submit and the frame advance.  On the device a submitted
\* command buffer starts and ends its depth-attachment writes (the clear and the depth
\* test's writes, in the fragment-test stages); the wait on the image-acquired
\* semaphore holds back only the colour-attachment-output stage, so nothing but a
\* barrier keeps the depth writes of two command buffers apart.

\* cmds holds, before its rendering begins, a barrier on the depth image whose source
\* scope covers depth writes in the fragment-test stages of every earlier command
\* and whose destination scope covers its own
OrdersDepthWrites(cmds) ==
    \E k \in BarriersOn(cmds, DepthImage) :
        /\ \A r \in CommandsNamed(cmds, "beginRendering") : k < r
        /\ {"eEarlyFragmentTests", "eLateFragmentTests"} \subseteq cmds[k].srcStageMask
        /\ "eDepthStencilAttachmentWrite" \in cmds[k].srcAccessMask
        /\ {"eEarlyFragmentTests", "eLateFragmentTests"} \subseteq cmds[k].dstStageMask
        /\ "eDepthStencilAttachmentWrite" \in cmds[k].dstAccessMask

frameRest == << pc, shouldBeClose, minimized, framebufferResized, imageIndex,
                inFlightFences, presentCompleteSemaphores, renderFinishedSemaphores,
                swapChainImages, swapChainGen, swapChainImageLayouts, commandBuffers, queue,
                presents, fenceWaits, signaledSinceSubmit, everSubmitted, doubleSignal,
                resizePending, allSuccess, windowHidden, tk >>

InitGpu ==
    /\ FrameIdle
    /\ CalcIdle
    /\ LifeIdle
    /\ executing = << >>

\* one drawFrame call without recreation: the fence of slot frameIndex is signaled (no
\* command buffer of the slot is unretired), an image no unretired command buffer
\* targets is acquired, the command buffer is recorded and submitted, the frame
\* index advances
SubmitFrame ==
    /\ ticks < MaxTicks
    /\ \A k \in 1 .. Len(executing) : executing[k].slot # frameIndex
    /\ \E i \in 0 .. (MaxImages - 1) :
          /\ \A k \in 1 .. Len(executing) : executing[k].image # i
          /\ executing' = Append(executing,
                                 [ slot |-> frameIndex, image |-> i,
                                   cmds |-> recordCommandBuffer(i, frameIndex),
                                   depth |-> "pending", color |-> "pending" ])
    /\ ticks' = ticks + 1
    /\ frameIndex' = NextFrame(frameIndex)
    /\ UNCHANGED << frameRest, calcVars, lifeVars >>

\* the device starts the depth writes of command buffer k; a barrier that orders
\* them makes it wait for the depth writes of every earlier command buffer
BeginDepthWrites ==
    /\ \E k \in 1 .. Len(executing) :
          /\ executing[k].depth = "pending"
          /\ OrdersDepthWrites(executing[k].cmds) =>
                 \A j \in 1 .. (k - 1) : executing[j].depth = "done"
          /\ executing' = [executing EXCEPT ![k].depth = "writing"]
    /\ UNCHANGED << frameVars, calcVars, lifeVars >>

\* the depth writes of command buffer k are complete
EndDepthWrites ==
    /\ \E k \in 1 .. Len(executing) :
          /\ executing[k].depth = "writing"
          /\ executing' = [executing EXCEPT ![k].depth = "done"]
    /\ UNCHANGED << frameVars, calcVars, lifeVars >>

\* the device starts the colour writes of command buffer k to its swapchain image:
\* its fragments have reached the depth test
BeginColorWrites ==
    /\ \E k \in 1 .. Len(executing) :
          /\ executing[k].color = "pending"
          /\ executing[k].depth # "pending"
          /\ executing' = [executing EXCEPT ![k].color = "writing"]
    /\ UNCHANGED << frameVars, calcVars, lifeVars >>

\* the colour writes of command buffer k are complete: no fragment is left in its depth test
EndColorWrites ==
    /\ \E k \in 1 .. Len(executing) :
          /\ executing[k].color = "writing"
          /\ executing[k].depth = "done"
          /\ executing' = [executing EXCEPT ![k].color = "done"]
    /\ UNCHANGED << frameVars, calcVars, lifeVars >>

\* the oldest command buffer completes and its fence signals
Retire ==
    /\ executing # << >>
    /\ Head(executing).depth = "done"
    /\ Head(executing).color = "done"
    /\ executing' = Tail(executing)
    /\ UNCHANGED << frameVars, calcVars, lifeVars >>

NextGpu ==
    \/ SubmitFrame
    \/ BeginDepthWrites
    \/ EndDepthWrites
    \/ BeginColorWrites
    \/ EndColorWrites
    \/ Retire

SpecGpu == InitGpu /\ [][NextGpu]_vars

\* every existing view of this kind was made from the object its member now holds
SwapChainViewsValid ==
    \A j \in 1 .. Len(swapChainImageViews) : swapChainImageViews[j] = swapChain
DepthViewValid == depthImageView # 0 => depthImageView = depthImage
TextureViewValid == textureImageView # 0 => textureImageView = textureImage

\* ------------------------------------------------------------ properties
InTick == pc \in {"wait", "acquire", "update", "record", "submit", "present"}

\* drawFrame has returned to mainLoop; tk describes the call that just returned
TickOver == pc \in {"poll", "exit", "done"} /\ ticks > 0

InFlightOn(f) == \E k \in 1 .. Len(queue) : queue[k].slot = f

Outstanding(s) ==
    Cardinality({ k \in 1 .. Len(queue) : queue[k].sem = s })
        + (IF renderFinishedSemaphores[s + 1] THEN 1 ELSE 0)

\* C1: whenever drawFrame is about to reset and re-record, or to submit, the command
\* buffer of slot frameIndex, that slot's fence has signaled since the slot's previous
\* submission (the fences are created signaled, which covers the first use).
C1_FenceBeforeReuse ==
    pc \in {"record", "submit"} => signaledSinceSubmit[frameIndex]

C1_Witness ==
    pc = "submit" /\ everSubmitted[frameIndex] /\ signaledSinceSubmit[frameIndex]

\* C2: a tick whose acquisition reported out-of-date recreated the swapchain exactly
\* once and recorded, submitted and presented nothing, and the tick that follows it
\* proceeds: the fence it waits on is signaled or has a submission pending that will
\* signal it.
C2_AbortThenProceed ==
    /\ (TickOver /\ tk.acq = "outOfDate") =>
           (tk.recreates = 1 /\ tk.records = 0 /\ tk.submits = 0 /\ tk.presentCalls = 0)
    /\ (pc = "wait" /\ tk.prevAcq = "outOfDate") =>
           (inFlightFences[frameIndex] \/ InFlightOn(frameIndex))

\* C3: no render-finished semaphore is signaled while an earlier signal of it is
\* unconsumed: each semaphore has at most one signal that is submitted or signaled
\* and not yet taken by a present wait, and the device never signals a signaled one.
C3_NoDoubleSignal ==
    /\ ~doubleSignal
    /\ \A s \in 0 .. (Len(renderFinishedSemaphores) - 1) : Outstanding(s) <= 1

\* third submit of a run without recreation over two semaphores, the second submit
\* still in flight: it signals again the semaphore the first submit signaled
C3_Witness ==
    /\ pc = "present" /\ allSuccess /\ ticks = 3
    /\ Len(renderFinishedSemaphores) = 2 /\ Len(queue) = 2
    /\ queue[2].sem # queue[1].sem /\ ~doubleSignal

\* C4: frameIndex always lies in 0..N-1, and while every acquisition and presentation
\* has succeeded, each tick has made exactly one fence wait and tick t runs on slot
\* t mod N.
C4_FrameCycle ==
    /\ frameIndex \in Slots
    /\ allSuccess =>
          /\ fenceWaits = (IF pc = "wait" THEN ticks - 1 ELSE ticks)
          /\ frameIndex = (IF InTick THEN (ticks - 1) % MAX_FRAMES_IN_FLIGHT
                                    ELSE ticks % MAX_FRAMES_IN_FLIGHT)

C4_Witness ==
    allSuccess /\ pc = "update" /\ ticks = 3 /\ frameIndex = 0 /\ fenceWaits = 3

\* C5: while the CPU writes slot frameIndex's uniform buffer, no submitted command
\* buffer of that slot (the one binding its descriptor set) is pending or executing.
C5_NoWriteDuringRead ==
    pc = "update" => ~InFlightOn(frameIndex)

C5_Witness ==
    pc = "update" /\ everSubmitted[frameIndex] /\ queue # << >>

\* C6: no two submitted, unfinished command buffers target the same swapchain image.
C6_OneBufferPerImage ==
    \A j, k \in 1 .. Len(queue) : j # k => queue[j].image # queue[k].image

C6_Witness ==
    Len(queue) = 2 /\ queue[1].image # queue[2].image

\* C7: at most MAX_FRAMES_IN_FLIGHT submitted frames are unretired.
C7_AtMostNInFlight ==
    Len(queue) <= MAX_FRAMES_IN_FLIGHT

C7_Witness ==
    Len(queue) = MAX_FRAMES_IN_FLIGHT /\ pc = "wait" /\ ~inFlightFences[frameIndex]

\* C8: in the step that destroys the image views and the swapchain, no submitted
\* frame is in flight, whichever path called recreateSwapChain.
C8_IdleBeforeDestroy ==
    [][swapChainGen' # swapChainGen => queue = << >>]_vars

C8_Witness ==
    TickOver /\ tk.submits = 1 /\ tk.recreates = 1 /\ tk.pres = "suboptimal"

C10_ResizeRecreates ==
    (TickOver /\ tk.resizeBefore /\ tk.presentCalls > 0) => tk.recreates >= 1

\* C11: whenever the application stops and its device objects are released, by a
\* normal return after a quit request or by a fatal error leaving run(), the device
\* is idle: no submitted command buffer and no present request is outstanding.
C11_IdleBeforeRelease ==
    pc \in {"exitSuccess", "exitFailure"} => DeviceIdle

\* C12: no swapchain or image is destroyed or replaced while a view made from it
\* exists: every existing image view refers to the swapchain or image that its
\* member currently holds.
C12_ViewsBeforeParents ==
    SwapChainViewsValid /\ DepthViewValid /\ TextureViewValid

\* C13: after a fatal error nothing but the failing exit follows; a tick ends in a
\* fatal error only if neither its acquisition reported out-of-date nor its
\* presentation reported out-of-date or suboptimal; the exit status is zero only
\* after the loop ended on a quit request and non-zero only after a fatal error.
C13_FatalEndsRecoverableContinues ==
    [][ /\ pc = "fatal" => pc' \in {"fatal", "exitFailure"}
        /\ pc' = "fatal" =>
               /\ tk'.acq \notin {"outOfDate", "thrownOutOfDate"}
               /\ tk'.pres \notin {"outOfDate", "thrownOutOfDate", "suboptimal"}
        /\ pc' = "exitSuccess" => (pc \in {"done", "exitSuccess"} /\ shouldBeClose')
        /\ pc' = "exitFailure" => pc \in {"fatal", "exitFailure"} ]_vars

\* C14: no drawFrame call is in progress while the last minimize / restore
\* notification processed is a minimize.
C14_NoTickWhileMinimized ==
    (InTick \/ pc \in {"recreateAcquire", "recreatePresent", "recreateCatch"}) =>
        ~windowHidden

\* the loop head was passed with the window minimized after at least one tick and
\* with ticks left to run: the iteration skipped drawFrame
C14_Witness ==
    pc = "exit" /\ windowHidden /\ ticks > 0 /\ ticks < MaxTicks

\* C21: once createDescriptorSets has run, descriptor set i has binding 0 pointing at
\* uniform buffer i and binding 1 pointing at the texture sampler and the one texture
\* image view, for every frame slot i, and no later step changes a descriptor set.
C21_DescriptorSetsFixed ==
    [][ descriptorSets' # << >> =>
            /\ Len(descriptorSets') = MAX_FRAMES_IN_FLIGHT
            /\ \A i \in Slots :
                   /\ descriptorSets'[i + 1].binding0.buffer = i
                   /\ descriptorSets'[i + 1].binding1.sampler = "textureSampler"
                   /\ descriptorSets'[i + 1].binding1.imageView # 0
                   /\ textureImageView' # 0 =>
                          descriptorSets'[i + 1].binding1.imageView = textureImageView'
            /\ descriptorSets # << >> => descriptorSets' = descriptorSets ]_vars

\* the swapchain was recreated after the sets were written
C21_Witness ==
    /\ lpc.at = "mainLoop" /\ recreations >= 1
    /\ descriptorSets # << >> /\ descriptorSets[2].binding0.buffer = 1

\* C22: the step that ends a tick aborted by an out-of-date acquisition advances the
\* frame index to (f+1) mod N, and that tick recorded, submitted and presented nothing.
C22_AbortAdvances ==
    [][ (pc = "recreateAcquire" /\ pc' # pc) =>
            /\ frameIndex' = NextFrame(frameIndex)
            /\ tk'.records = 0 /\ tk'.submits = 0 /\ tk'.presentCalls = 0 ]_vars

\* C23: the step that ends a tick which submitted a command buffer advances the frame
\* index to (f+1) mod N, also when the tick recreated the swapchain after presenting.
C23_SubmitThenAdvance ==
    [][ (tk.submits = 1 /\ pc \in {"present", "recreatePresent", "recreateCatch"}
             /\ pc' \in {"poll", "exit"}) =>
            frameIndex' = NextFrame(frameIndex) ]_vars

C25_LayoutTracked ==
    tk.records = 1 =>
        tk.oldLayout = (IF tk.firstUse THEN "eUndefined" ELSE "ePresentSrcKHR")

\* C25 amended: the barrier recorded before rendering names undefined as the old
\* layout on every use of a swapchain image, the first and the later ones.
C25_AlwaysUndefined ==
    tk.records = 1 => tk.oldLayout = "eUndefined"

\* an image that was shown before is recorded again
C25_Witness ==
    tk.records = 1 /\ ~tk.firstUse /\ tk.oldLayout = "eUndefined"

\* C26: a submitted command buffer executes only with its slot's image-acquired
\* semaphore signaled, and signals the render-finished semaphore of its image and
\* its slot's fence; a present request executes only with the render-finished
\* semaphore of its image signaled; the submit of a tick signals the semaphore of the
\* acquired image and slot frameIndex's fence, the present of the tick waits on that
\* same semaphore, and a pending present request has exactly one signal to take.
C26_SemaphoreHandoffs ==
    [][ /\ (queue # << >> /\ queue' = Tail(queue)) =>
               /\ presentCompleteSemaphores[Head(queue).slot]
               /\ renderFinishedSemaphores'[Head(queue).image + 1]
               /\ inFlightFences'[Head(queue).slot]
        /\ \A p \in presents \ presents' :
               renderFinishedSemaphores[p.image + 1] /\ p.sem = p.image
        /\ (pc = "submit" /\ pc' = "present") =>
               queue'[Len(queue')] =
                   [slot |-> frameIndex, image |-> imageIndex, sem |-> imageIndex]
        /\ \A p \in presents' \ presents :
               /\ pc = "present" /\ p.image = imageIndex /\ p.sem = imageIndex
               /\ Outstanding(p.sem) = 1 ]_vars

\* the present request of the last tick is pending with its semaphore signaled while
\* the next frame's command buffer is still queued
C26_Witness ==
    /\ pc = "present" /\ queue # << >>
    /\ \E p \in presents : renderFinishedSemaphores[p.sem + 1] /\ p.image # imageIndex

\* C27: at every tick boundary each frame slot's fence is signaled or has a
\* submission pending that will signal it.
C27_FencesRecoverable ==
    pc = "poll" => \A f \in Slots : inFlightFences[f] \/ InFlightOn(f)

\* C28: the number of render-finished semaphores equals the number of swapchain
\* images, and the image index a tick acquired indexes an existing semaphore.
C28_SemaphorePerImage ==
    /\ Len(renderFinishedSemaphores) = Len(swapChainImages)
    /\ pc \in {"update", "record", "submit"} => imageIndex < Len(renderFinishedSemaphores)

\* C15: the extent chooseSwapExtent returns lies between the capabilities' minimum and
\* maximum image extent in width and in height, whether it is the current extent or
\* the clamped window size.
C15_ExtentWithinBounds ==
    (call.fn = "chooseSwapExtent" /\ ret.kind = "value") =>
        LET c == call.capabilities
            e == ret.value
        IN  /\ ULessEq(c.minImageExtent.width, e.width)
            /\ ULessEq(e.width, c.maxImageExtent.width)
            /\ ULessEq(c.minImageExtent.height, e.height)
            /\ ULessEq(e.height, c.maxImageExtent.height)

\* the window is wider than the maximum and lower than the minimum: both clamps act
C15_Witness ==
    /\ call.fn = "chooseSwapExtent" /\ ret.kind = "value"
    /\ call.capabilities.currentExtent.width = UINT32_MAX
    /\ call.sdl_surface.w > call.capabilities.maxImageExtent.width
    /\ call.sdl_surface.h >= 0
    /\ call.sdl_surface.h < call.capabilities.minImageExtent.height
    /\ ret.value = [width |-> call.capabilities.maxImageExtent.width,
                    height |-> call.capabilities.minImageExtent.height]

\* C16: for capabilities with min <= max or max = 0, calculateMinImageCount returns
\* max(3, min) limited to [min, max] when max > 0, and max(3, min) when max = 0.
C16_MinImageCount ==
    (call.fn = "calculateMinImageCount" /\ ret.kind = "value"
        /\ (call.minImageCount <= call.maxImageCount \/ call.maxImageCount = 0)) =>
        LET want == IF call.minImageCount > PreferredImageCount
                       THEN call.minImageCount ELSE PreferredImageCount
        IN  ret.value =
               IF call.maxImageCount > 0
                  THEN (IF want < call.minImageCount THEN call.minImageCount
                        ELSE IF want > call.maxImageCount THEN call.maxImageCount
                        ELSE want)
                  ELSE want

\* the maximum is below three and caps the result
C16_Witness ==
    /\ call.fn = "calculateMinImageCount" /\ ret.kind = "value"
    /\ call.maxImageCount > 0 /\ call.maxImageCount < PreferredImageCount
    /\ call.minImageCount <= call.maxImageCount
    /\ ret.value = call.maxImageCount

\* C17: for a non-empty candidate list, chooseSwapSurfaceFormat returns the
\* B8G8R8A8-sRGB / sRGB-nonlinear entry when the list holds one at any position, and
\* the first candidate otherwise.
C17_PreferredFormat ==
    (call.fn = "chooseSwapSurfaceFormat" /\ ret # Pending /\ call.availableFormats # << >>) =>
        LET preferred == [format |-> "eB8G8R8A8Srgb", colorSpace |-> "eSrgbNonlinear"]
            l == call.availableFormats
        IN  /\ ret.kind = "value"
            /\ ret.value = IF \E i \in 1 .. Len(l) : l[i] = preferred
                              THEN preferred ELSE l[1]

\* the preferred entry is the last of several candidates and not the first
C17_Witness ==
    /\ call.fn = "chooseSwapSurfaceFormat" /\ ret.kind = "value"
    /\ Len(call.availableFormats) >= 3
    /\ call.availableFormats[1].format # "eB8G8R8A8Srgb"
    /\ call.availableFormats[2].colorSpace # "eSrgbNonlinear"
    /\ ret.value = call.availableFormats[Len(call.availableFormats)]
    /\ ret.value = [format |-> "eB8G8R8A8Srgb", colorSpace |-> "eSrgbNonlinear"]

\* C18: chooseSwapPresentMode returns mailbox when the list contains it and FIFO
\* otherwise, never any other mode.
C18_PresentMode ==
    (call.fn = "chooseSwapPresentMode" /\ ret # Pending) =>
        LET l == call.availablePresentModes
        IN  /\ ret.kind = "value"
            /\ ret.value = IF \E i \in 1 .. Len(l) : l[i] = "eMailbox"
                              THEN "eMailbox" ELSE "eFifo"

\* a list without mailbox and without FIFO still yields FIFO
C18_Witness ==
    /\ call.fn = "chooseSwapPresentMode" /\ ret.kind = "value"
    /\ call.availablePresentModes # << >>
    /\ \A i \in 1 .. Len(call.availablePresentModes) :
           call.availablePresentModes[i] \in {"eImmediate", "eFifoRelaxed"}
    /\ ret.value = "eFifo"

\* bit b of mask x is set
BitSet(x, b) == (x \div (2 ^ b)) % 2 = 1
\* memory type i is allowed by the call's filter and has every requested property
Suitable(i) ==
    /\ BitSet(call.typeFilter, i)
    /\ \A b \in 0 .. 1 : BitSet(call.properties, b) => BitSet(call.memoryTypes[i + 1], b)

\* C19: findMemoryType returns the lowest index below the memory type count whose
\* filter bit is set and whose flags include every requested property, and throws
\* exactly when no such index exists.
C19_LowestSuitableType ==
    (call.fn = "findMemoryType" /\ ret # Pending) =>
        LET n == Len(call.memoryTypes)
        IN  IF \E i \in 0 .. (n - 1) : Suitable(i)
               THEN /\ ret.kind = "value"
                    /\ ret.value \in 0 .. (n - 1)
                    /\ Suitable(ret.value)
                    /\ \A j \in 0 .. (ret.value - 1) : ~Suitable(j)
               ELSE ret.kind = "throw"

\* type 0 has the properties but is filtered out, type 1 is allowed but lacks a
\* property, type 2 is returned
C19_Witness ==
    /\ call.fn = "findMemoryType" /\ ret.kind = "value" /\ ret.value = 2
    /\ call.properties = 3
    /\ ~BitSet(call.typeFilter, 0) /\ call.memoryTypes[1] = 3
    /\ BitSet(call.typeFilter, 1) /\ call.memoryTypes[2] = 1

\* C20: transitionImageLayout records one barrier with no source access and
\* transfer-write destination access for undefined -> transfer-destination, one with
\* transfer-write source access and shader-read destination access for
\* transfer-destination -> shader-read-only, and for every other pair throws with no
\* barrier recorded and nothing submitted.
C20_LayoutTransition ==
    (call.fn = "transitionImageLayout" /\ ret # Pending) =>
        IF call.oldLayout = "eUndefined" /\ call.newLayout = "eTransferDstOptimal"
           THEN /\ ret.kind = "value" /\ Len(ret.barriers) = 1 /\ ret.submits = 1
                /\ ret.barriers[1].srcAccessMask = { }
                /\ ret.barriers[1].dstAccessMask = {"eTransferWrite"}
        ELSE IF call.oldLayout = "eTransferDstOptimal"
                    /\ call.newLayout = "eShaderReadOnlyOptimal"
           THEN /\ ret.kind = "value" /\ Len(ret.barriers) = 1 /\ ret.submits = 1
                /\ ret.barriers[1].srcAccessMask = {"eTransferWrite"}
                /\ ret.barriers[1].dstAccessMask = {"eShaderRead"}
        ELSE ret.kind = "throw" /\ ret.barriers = << >> /\ ret.submits = 0

\* the reverse of an accepted pair is rejected
C20_Witness ==
    /\ call.fn = "transitionImageLayout" /\ ret.kind = "throw"
    /\ call.oldLayout = "eShaderReadOnlyOptimal" /\ call.newLayout = "eTransferDstOptimal"
    /\ ret.barriers = << >> /\ ret.submits = 0

\* C29 as stated: for all surface capabilities (at least one image, and a maximum
\* that is 0 or not below the minimum) the image count calculateMinImageCount requests
\* is at least MAX_FRAMES_IN_FLIGHT.
C29_AtLeastFramesInFlightAlways ==
    (call.fn = "calculateMinImageCount" /\ ret.kind = "value"
        /\ call.minImageCount >= 1
        /\ (call.maxImageCount = 0 \/ call.minImageCount <= call.maxImageCount)) =>
        ret.value >= MAX_FRAMES_IN_FLIGHT

\* C29 amended: for surface capabilities whose maximum image count is 0 (no limit) or
\* at least MAX_FRAMES_IN_FLIGHT, the requested image count is at least
\* MAX_FRAMES_IN_FLIGHT.
C29_AtLeastFramesInFlight ==
    (call.fn = "calculateMinImageCount" /\ ret.kind = "value"
        /\ (call.maxImageCount = 0 \/ call.maxImageCount >= MAX_FRAMES_IN_FLIGHT)) =>
        ret.value >= MAX_FRAMES_IN_FLIGHT

\* the maximum equals the number of frames in flight and caps the request to it
C29_Witness ==
    /\ call.fn = "calculateMinImageCount" /\ ret.kind = "value"
    /\ call.maxImageCount = MAX_FRAMES_IN_FLIGHT
    /\ ret.value = MAX_FRAMES_IN_FLIGHT

\* C30: with an empty list of surface formats chooseSwapSurfaceFormat selects nothing
\* and fails, and with an empty list of present modes chooseSwapPresentMode selects
\* nothing and fails.
C30_NothingSupportedIsFatal ==
    /\ (call.fn = "chooseSwapSurfaceFormat" /\ call.availableFormats = << >> /\ ret # Pending) =>
           ret.kind = "throw"
    /\ (call.fn = "chooseSwapPresentMode" /\ call.availablePresentModes = << >>
           /\ ret # Pending) =>
           ret.kind = "throw"

\* C31: whenever drawFrame passes slot frameIndex's image-acquired semaphore to
\* acquireNextImage, the semaphore is unsignaled and no submission of that slot, whose
\* wait would consume an earlier signal, is still unfinished; the acquisition never
\* signals a signaled semaphore.
C31_AcquireSemaphoreFree ==
    [][ (pc = "acquire" /\ pc' # pc) =>
            /\ ~presentCompleteSemaphores[frameIndex]
            /\ ~InFlightOn(frameIndex) ]_vars

\* a slot is used a second time, after a tick that recreated the swapchain, and its
\* semaphore is signaled again by the acquisition
C31_Witness ==
    /\ pc = "update" /\ ticks = 3 /\ swapChainGen
    /\ everSubmitted[0] /\ everSubmitted[1]
    /\ presentCompleteSemaphores[frameIndex]

\* C32: every recorded command buffer holds, in this order: begin, the barrier taking
\* the acquired image to colour-attachment-optimal, the barrier taking the depth image
\* to depth-attachment-optimal, begin rendering, bind pipeline, bind vertex buffer,
\* bind index buffer, bind the slot's descriptor set, exactly one indexed draw over the
\* whole index buffer, end rendering, the barrier taking the acquired image to
\* present-source, end; and an image the presentation engine can take or has shown is
\* in present-source layout.
C32_RecordedOrder ==
    /\ \A f \in Slots : commandBuffers[f] # -1 =>
           LET cmds == recordCommandBuffer(commandBuffers[f], f)
               steps == SelectSeq(cmds, LAMBDA c : c.op \notin {"setViewport", "setScissor"})
               n == Len(cmds)
           IN  /\ [ k \in 1 .. Len(steps) |-> steps[k].op ] =
                      << "begin", "pipelineBarrier2", "pipelineBarrier2", "beginRendering",
                         "bindPipeline", "bindVertexBuffers", "bindIndexBuffer",
                         "bindDescriptorSets", "drawIndexed", "endRendering",
                         "pipelineBarrier2", "end" >>
               /\ steps[2].image = SwapChainImage(commandBuffers[f])
               /\ steps[2].newLayout = "eColorAttachmentOptimal"
               /\ steps[3].image = DepthImage
               /\ steps[3].newLayout = "eDepthAttachmentOptimal"
               /\ steps[4].colorView = commandBuffers[f]
               /\ steps[8].set = f
               /\ steps[9].indexCount = "indices.size()"
               /\ steps[11].image = SwapChainImage(commandBuffers[f])
               /\ steps[11].oldLayout = "eColorAttachmentOptimal"
               /\ steps[11].newLayout = "ePresentSrcKHR"
    /\ \A p \in presents :
           (p.shown /\ p.sem < Len(renderFinishedSemaphores)
                /\ renderFinishedSemaphores[p.sem + 1]) =>
               swapChainImageLayouts[p.image + 1] = "ePresentSrcKHR"
    /\ \A i \in 1 .. Len(swapChainImages) :
           swapChainImages[i] = "released" => swapChainImageLayouts[i] = "ePresentSrcKHR"

\* the presentation engine can take a rendered image while another image, never
\* rendered to, is still in the undefined layout
C32_Witness ==
    /\ \E p \in presents :
           /\ p.shown /\ renderFinishedSemaphores[p.sem + 1]
           /\ swapChainImageLayouts[p.image + 1] = "ePresentSrcKHR"
    /\ \E i \in 1 .. Len(swapChainImages) : swapChainImageLayouts[i] = "eUndefined"
    /\ commandBuffers[0] # -1

\* C36: the step in which recreateSwapChain runs replaces the swapchain, its images
\* and its views and nothing of the frame scheduler: the fences and their signaled
\* state, the image-acquired and the render-finished semaphores, the command buffers
\* and the acquired image index are the same after it, and the frame index changes
\* only by the advance at the end of drawFrame on the path that reaches it.
C36_RecreateFrame ==
    [][ swapChainGen' # swapChainGen =>
            /\ inFlightFences' = inFlightFences
            /\ presentCompleteSemaphores' = presentCompleteSemaphores
            /\ renderFinishedSemaphores' = renderFinishedSemaphores
            /\ commandBuffers' = commandBuffers
            /\ imageIndex' = imageIndex
            /\ frameIndex' = (IF pc = "recreatePresent" THEN (frameIndex + 1) % MAX_FRAMES_IN_FLIGHT
                              ELSE frameIndex) ]_vars

\* the swapchain was recreated with another number of images after both slots had
\* recorded; the semaphores still number what the first swapchain had
C36_Witness ==
    /\ swapChainGen /\ tk.recreates = 1
    /\ commandBuffers[0] # -1 /\ commandBuffers[1] # -1
    /\ Len(swapChainImages) # Len(renderFinishedSemaphores)
    /\ \E f \in Slots : ~inFlightFences[f]

\* C39: every per-slot object a drawFrame call has used (the fence waited on, reset
\* and handed to the submit, the image-acquired semaphore, the uniform buffer, the
\* command buffer recorded and submitted, the descriptor set bound) has the index
\* frameIndex had when the call started, and frameIndex keeps that value from the
\* fence wait up to the present call.
C39_OneSlotPerTick ==
    /\ \A u \in tk.used : u[2] = tk.slot
    /\ InTick => frameIndex = tk.slot
    /\ \A k \in 1 .. Len(queue) :
           (k = Len(queue) /\ pc = "present") => queue[k].slot = tk.slot

\* a tick on slot 1 has used all five kinds of object and submitted
C39_Witness ==
    /\ pc = "present" /\ tk.slot = 1
    /\ { u[1] : u \in tk.used } =
           { "inFlightFences", "presentCompleteSemaphores", "uniformBuffers",
             "commandBuffers", "descriptorSets" }

\* C37: objects are released in reverse order of creation: while an image view exists
\* its swapchain exists, while the swapchain exists the surface exists, while any
\* device-owned object exists the device exists, while the surface or the device
\* exists the instance exists, and while the surface, the swapchain, the device or
\* the instance exists the window, created first, exists.
C37_ReverseCreationOrder ==
    /\ swapChainImageViews # << >> => swapChain # 0
    /\ swapChain # 0 => surface
    /\ (swapChain # 0 \/ swapChainImageViews # << >> \/ depthImage # 0 \/ depthImageView # 0
           \/ textureImage # 0 \/ textureImageView # 0) => device
    /\ (surface \/ device) => instance
    /\ (surface \/ swapChain # 0 \/ device \/ instance) => window

\* C35: whenever the frame loop can record a command buffer, the depth image has the
\* extent of the current swapchain, after initVulkan and after every recreateSwapChain.
C35_DepthMatchesSwapChain ==
    lpc.at = "mainLoop" => depthExtent = swapChainExtent

\* back in the loop after a recreation, with a swapchain that is not square
C35_Witness ==
    /\ lpc.at = "mainLoop" /\ recreations >= 1
    /\ swapChainExtent.width # swapChainExtent.height
    /\ depthExtent = swapChainExtent

\* C33: the device completes the texture's transfers in the order transition undefined
\* -> transfer-destination, buffer-to-image copy, transition transfer-destination ->
\* shader-read-only, each finding the image in the layout it expects; a transfer is
\* submitted only when every earlier one has completed; and when the frame loop is
\* reached the three are done and the texture is in shader-read-only layout.
C33_TextureUploadOrder ==
    [][ LET tex == SelectSeq(completed', LAMBDA c : c.transfer.cmd # "copyBuffer")
            expected == << << "eUndefined", "eTransferDstOptimal" >>,
                           << "eTransferDstOptimal", "eTransferDstOptimal" >>,
                           << "eTransferDstOptimal", "eShaderReadOnlyOptimal" >> >>
            Layouts(c) == IF c.transfer.cmd = "pipelineBarrier"
                             THEN << c.transfer.barrier.oldLayout, c.transfer.barrier.newLayout >>
                             ELSE << "eTransferDstOptimal", "eTransferDstOptimal" >>
        IN  /\ Len(transfers') > Len(transfers) => transfers = << >>
            /\ Len(tex) <= 3
            /\ \A k \in 1 .. Len(tex) :
                   /\ Layouts(tex[k]) = expected[k]
                   /\ tex[k].layoutBefore = expected[k][1]
                   /\ (k = 2) = (tex[k].transfer.cmd = "copyBufferToImage")
            /\ lpc'.at = "mainLoop" =>
                   (Len(tex) = 3 /\ textureImageLayout' = "eShaderReadOnlyOptimal") ]_vars

\* the copy into the texture has completed and the second transition is submitted
C33_Witness ==
    /\ lpc.at = "waitIdle" /\ returnTo = "returnFromUpload"
    /\ stagingBuffer = "createTextureImage"
    /\ Len(completed) = 2 /\ Len(transfers) = 1
    /\ textureImageLayout = "eTransferDstOptimal"

C38_DepthWritesOrdered ==
    \A j, k \in 1 .. Len(executing) :
        j < k =>
            /\ ~(executing[j].depth = "writing" /\ executing[k].depth = "writing")
            /\ executing[k].depth # "pending" => executing[j].depth = "done"

\* two command buffers of different slots are in flight, the earlier still writing
\* depth and the later held back
C38_Witness ==
    /\ Len(executing) = 2
    /\ executing[1].slot # executing[2].slot
    /\ executing[1].depth = "writing" /\ executing[2].depth = "pending"

====
